---------------------------- MODULE Spec2Model ----------------------------
(***************************************************************************)
(* A model of nonebot_plugin_ddcheck/data_source.py.                       *)
(*                                                                         *)
(* Text is a sequence of characters; a character is a one-character        *)
(* string (a character the language cannot write in a string is named by   *)
(* its code point, such as "U+4E2D").  Ord gives the code point, as        *)
(* Python's ord().  A file is a sequence of bytes (0..255).                *)
(*                                                                         *)
(* The module holds several specifications over the same variables, one    *)
(* per component of the program:                                           *)
(*   SpecKeys      get_wbi_keys called by concurrent tasks                 *)
(*   SpecKeysSign  the same, with get_wbi_sign_params called in between    *)
(*   SpecFetch     get_user_attentions                                     *)
(*   SpecRegistry  update_vtb_list and the file it writes                  *)
(*   SpecStore     dump_vtb_list and load_vtb_list                         *)
(*   SpecReport    render_ddcheck_image                                    *)
(*   SpecColumns   render_ddcheck_image with up to 250 matched entries     *)
(*   SpecLookup    get_vtb_list beside a refresh of the registry           *)
(*   SpecSign      get_wbi_sign_params                                     *)
(***************************************************************************)
EXTENDS Integers, Sequences, FiniteSets, TLC

(***************************************************************************)
(* Bounds of the model                                                     *)
(***************************************************************************)
\* concurrent tasks that call get_wbi_keys
NumTasks == 2
\* times the clock advances
MaxTicks == 2
\* requests to the navigation endpoint
MaxNavRequests == 2

(***************************************************************************)
(* Program constants                                                       *)
(***************************************************************************)
\* the cache's time to live in seconds, line 52
TTL == 1800

(***************************************************************************)
(* Text                                                                    *)
(***************************************************************************)
HexDigits == <<"0","1","2","3","4","5","6","7","8","9","a","b","c","d","e","f">>

\* s without its first n characters: s[n:]
Drop(s, n) == SubSeq(s, n + 1, Len(s))

\* the first n characters of s: s[:n]
Take(s, n) == SubSeq(s, 1, n)

\* the positions of character c in s
Positions(s, c) == {i \in 1..Len(s) : s[i] = c}

Max(S) == CHOOSE x \in S : \A y \in S : y <= x

Min(S) == CHOOSE x \in S : \A y \in S : x <= y

\* s.split(c)[-1]: what follows the last c, the whole of s when it has none
LastPiece(s, c) ==
    IF Positions(s, c) = {} THEN s ELSE Drop(s, Max(Positions(s, c)))

\* s.split(c)[0]: what precedes the first c, the whole of s when it has none
FirstPiece(s, c) ==
    IF Positions(s, c) = {} THEN s ELSE Take(s, Min(Positions(s, c)) - 1)

\* url.split("/")[-1].split(".")[0], lines 64-65
Stem(url) == FirstPiece(LastPiece(url, "/"), ".")

(***************************************************************************)
(* Characters and bytes                                                    *)
(***************************************************************************)
\* the printable ASCII characters, from code point 32 on
Printable ==
    <<
      " ", "!", "\"", "#", "$", "%", "&", "'", "(", ")", "*", "+", ",", "-", ".", "/",
      "0", "1", "2", "3", "4", "5", "6", "7", "8", "9", ":", ";", "<", "=", ">", "?",
      "@", "A", "B", "C", "D", "E", "F", "G", "H", "I", "J", "K", "L", "M", "N", "O",
      "P", "Q", "R", "S", "T", "U", "V", "W", "X", "Y", "Z", "[", "\\", "]", "^", "_",
      "U+0060", "a", "b", "c", "d", "e", "f", "g", "h", "i", "j", "k", "l", "m", "n", "o",
      "p", "q", "r", "s", "t", "u", "v", "w", "x", "y", "z", "{", "|", "}", "~"
    >>

\* the characters of the model outside printable ASCII, with their code points
OtherChars == {<<"\n", 10>>, <<"U+00E9", 233>>, <<"U+4E2D", 20013>>}

\* ord(c)
Ord(c) ==
    IF \E o \in OtherChars : o[1] = c
    THEN (CHOOSE o \in OtherChars : o[1] = c)[2]
    ELSE 31 + (CHOOSE i \in 1..Len(Printable) : Printable[i] = c)

\* whether code point n is a character of the model
HasChr(n) == (n - 31 \in 1..Len(Printable)) \/ (\E o \in OtherChars : o[2] = n)

\* chr(n)
Chr(n) ==
    IF n - 31 \in 1..Len(Printable)
    THEN Printable[n - 31]
    ELSE (CHOOSE o \in OtherChars : o[2] = n)[1]

IsDigit(c) == Ord(c) \in 48..57

IsAlnum(c) == Ord(c) \in (48..57) \cup (65..90) \cup (97..122)

\* the UTF-8 bytes of one character
Utf8Char(c) ==
    LET n == Ord(c) IN
    IF n < 128 THEN <<n>>
    ELSE IF n < 2048 THEN <<192 + (n \div 64), 128 + (n % 64)>>
    ELSE <<224 + (n \div 4096), 128 + ((n \div 64) % 64), 128 + (n % 64)>>

RECURSIVE Utf8Encode(_)
\* text.encode("utf-8"): the bytes of the characters, in order (the text is
\* halved so that a long text does not nest the evaluation deeply)
Utf8Encode(text) ==
    IF text = <<>> THEN <<>>
    ELSE IF Len(text) = 1 THEN Utf8Char(text[1])
    ELSE LET h == Len(text) \div 2 IN
         Utf8Encode(Take(text, h)) \o Utf8Encode(Drop(text, h))

IsCont(b) == b \in 128..191

RECURSIVE Utf8DecodeRun(_)
\* bytes.decode("utf-8"), strict, character by character: ok is FALSE for a
\* UnicodeDecodeError
Utf8DecodeRun(bytes) ==
    IF bytes = <<>> THEN [ok |-> TRUE, text |-> <<>>]
    ELSE
      LET b == bytes[1]
          n == IF b < 128 THEN 1
               ELSE IF b \in 194..223 THEN 2
               ELSE IF b \in 224..239 THEN 3
               ELSE 0
          cp == IF n = 1 THEN b
                ELSE IF n = 2 THEN (b - 192) * 64 + (bytes[2] - 128)
                ELSE (b - 224) * 4096 + (bytes[2] - 128) * 64 + (bytes[3] - 128)
      IN
      IF n = 0 \/ Len(bytes) < n \/ (\E i \in 2..n : ~IsCont(bytes[i]))
      THEN [ok |-> FALSE, text |-> <<>>]
      ELSE IF (n = 2 /\ cp < 128) \/ (n = 3 /\ cp < 2048) \/ ~HasChr(cp)
      THEN [ok |-> FALSE, text |-> <<>>]
      ELSE LET rest == Utf8DecodeRun(Drop(bytes, n)) IN
           [ok |-> rest.ok,
            text |-> IF rest.ok THEN <<Chr(cp)>> \o rest.text ELSE <<>>]

RECURSIVE Utf8Decode(_)
\* bytes.decode("utf-8"), strict.  A byte that continues no character begins
\* one, so long input is decoded in two parts, cut before such a byte (this
\* keeps the evaluation from nesting deeply; the result is that of
\* Utf8DecodeRun).
Utf8Decode(bytes) ==
    IF Len(bytes) <= 8 THEN Utf8DecodeRun(bytes)
    ELSE LET h == Len(bytes) \div 2
             cuts == {i \in (h + 1)..Len(bytes) : ~IsCont(bytes[i])}
         IN IF cuts = {} THEN [ok |-> FALSE, text |-> <<>>]
            ELSE LET m == Min(cuts)
                     a == Utf8Decode(Take(bytes, m - 1))
                     b == Utf8Decode(Drop(bytes, m - 1))
                 IN IF a.ok /\ b.ok THEN [ok |-> TRUE, text |-> a.text \o b.text]
                    ELSE [ok |-> FALSE, text |-> <<>>]

\* whether text a sorts before text b: Python's < on str, by code point
RECURSIVE TextLess(_, _)
TextLess(a, b) ==
    IF b = <<>> THEN FALSE
    ELSE IF a = <<>> THEN TRUE
    ELSE IF Head(a) = Head(b) THEN TextLess(Tail(a), Tail(b))
    ELSE Ord(Head(a)) < Ord(Head(b))

RECURSIVE IntText(_)
\* str(n) of an integer n >= 0
IntText(n) ==
    IF n < 10 THEN <<Chr(48 + n)>>
    ELSE IntText(n \div 10) \o <<Chr(48 + (n % 10))>>

(***************************************************************************)
(* Python values: int, str, dict (its items in insertion order), None      *)
(***************************************************************************)
PyInt(n) == [t |-> "int", n |-> n]

PyStr(s) == [t |-> "str", s |-> s]

PyDict(items) == [t |-> "dict", items |-> items]

PyNone == [t |-> "None"]

PyList(elems) == [t |-> "list", elems |-> elems]

\* str(v), of an int or a str
StrOf(v) ==
    IF v.t = "int"
    THEN (IF v.n < 0 THEN <<"-">> \o IntText(0 - v.n) ELSE IntText(v.n))
    ELSE v.s

\* bool(v)
Truthy(v) ==
    CASE v.t = "int" -> v.n # 0
      [] v.t = "str" -> v.s # <<>>
      [] v.t = "dict" -> v.items # <<>>
      [] v.t = "list" -> v.elems # <<>>
      [] OTHER -> FALSE

Has(items, k) == \E i \in 1..Len(items) : items[i][1] = k

\* d[k]
Get(items, k) == items[CHOOSE i \in 1..Len(items) : items[i][1] = k][2]

\* d.get(k, None)
GetOrNone(items, k) == IF Has(items, k) THEN Get(items, k) ELSE PyNone

\* d[k] = v: in place when d has k, appended otherwise
Put(items, k, v) ==
    IF Has(items, k)
    THEN [i \in 1..Len(items) |-> IF items[i][1] = k THEN <<k, v>> ELSE items[i]]
    ELSE Append(items, <<k, v>>)

\* the names of the fields the program reads and writes
K ==
    [mid |-> <<"m","i","d">>,
     uid |-> <<"u","i","d">>,
     uname |-> <<"u","n","a","m","e">>,
     wts |-> <<"w","t","s">>,
     w_rid |-> <<"w","_","r","i","d">>,
     vmid |-> <<"v","m","i","d">>,
     pn |-> <<"p","n">>,
     ps |-> <<"p","s">>,
     order |-> <<"o","r","d","e","r">>,
     jsonp |-> <<"j","s","o","n","p">>,
     keyword |-> <<"k","e","y","w","o","r","d">>,
     face |-> <<"f","a","c","e">>,
     attention |-> <<"a","t","t","e","n","t","i","o","n">>,
     name |-> <<"n","a","m","e">>,
     fans |-> <<"f","a","n","s">>,
     follows |-> <<"f","o","l","l","o","w","s">>,
     percent |-> <<"p","e","r","c","e","n","t">>,
     vtbs |-> <<"v","t","b","s">>,
     num_per_col |-> <<"n","u","m","_","p","e","r","_","c","o","l">>,
     medal |-> <<"m","e","d","a","l">>,
     target_name |-> <<"t","a","r","g","e","t","_","n","a","m","e">>,
     medal_info |-> <<"m","e","d","a","l","_","i","n","f","o">>,
     medal_name |-> <<"m","e","d","a","l","_","n","a","m","e">>,
     level |-> <<"l","e","v","e","l">>,
     medal_color_border |-> <<"m","e","d","a","l","_","c","o","l","o","r","_","b","o","r","d","e","r">>,
     medal_color_start |-> <<"m","e","d","a","l","_","c","o","l","o","r","_","s","t","a","r","t">>,
     medal_color_end |-> <<"m","e","d","a","l","_","c","o","l","o","r","_","e","n","d">>,
     color_border |-> <<"c","o","l","o","r","_","b","o","r","d","e","r">>,
     color_start |-> <<"c","o","l","o","r","_","s","t","a","r","t">>,
     color_end |-> <<"c","o","l","o","r","_","e","n","d">>]

(***************************************************************************)
(* json.dump and json.load as dump_vtb_list and load_vtb_list use them,    *)
(* lines 148-166, for the values the program writes: lists, dicts, strs,   *)
(* ints and None                                                           *)
(***************************************************************************)
RECURSIVE JsonEscape(_)
\* the body of a JSON string with ensure_ascii=False: the quote, the
\* backslash and the line feed are escaped, every other character is kept
JsonEscape(text) ==
    IF text = <<>> THEN <<>>
    ELSE LET c == Head(text) IN
         (IF c = "\"" THEN <<"\\", "\"">>
          ELSE IF c = "\\" THEN <<"\\", "\\">>
          ELSE IF c = "\n" THEN <<"\\", "n">>
          ELSE <<c>>)
             \o JsonEscape(Tail(text))

\* a line feed and the indentation of the level, indent=4
NewlineIndent(level) == <<"\n">> \o [i \in 1..(4 * level) |-> " "]

RECURSIVE JsonText(_, _)
RECURSIVE JsonElems(_, _)
RECURSIVE JsonItems(_, _)
\* the text json.dump writes for v at a level of nesting, with indent=4 and
\* separators=(",", ": ")
JsonText(v, level) ==
    CASE v.t = "int" -> StrOf(v)
      [] v.t = "str" -> <<"\"">> \o JsonEscape(v.s) \o <<"\"">>
      [] v.t = "None" -> <<"n","u","l","l">>
      [] v.t = "list" ->
            IF v.elems = <<>> THEN <<"[", "]">>
            ELSE <<"[">> \o NewlineIndent(level + 1) \o JsonElems(v.elems, level + 1)
                     \o NewlineIndent(level) \o <<"]">>
      [] v.t = "dict" ->
            IF v.items = <<>> THEN <<"{", "}">>
            ELSE <<"{">> \o NewlineIndent(level + 1) \o JsonItems(v.items, level + 1)
                     \o NewlineIndent(level) \o <<"}">>

JsonElems(elems, level) ==
    JsonText(Head(elems), level)
        \o (IF Len(elems) > 1
            THEN <<",">> \o NewlineIndent(level) \o JsonElems(Tail(elems), level)
            ELSE <<>>)

JsonItems(items, level) ==
    <<"\"">> \o JsonEscape(Head(items)[1]) \o <<"\"", ":", " ">>
        \o JsonText(Head(items)[2], level)
        \o (IF Len(items) > 1
            THEN <<",">> \o NewlineIndent(level) \o JsonItems(Tail(items), level)
            ELSE <<>>)

\* a parse that failed: json.decoder.JSONDecodeError
ParseError == [ok |-> FALSE, val |-> PyNone, pos |-> 0]

Parsed(v, pos) == [ok |-> TRUE, val |-> v, pos |-> pos]

IsSpace(c) == c \in {" ", "\n"}

RECURSIVE SkipSpace(_, _)
\* the first position from i on that holds no white space
SkipSpace(text, i) ==
    IF i <= Len(text) /\ IsSpace(text[i]) THEN SkipSpace(text, i + 1) ELSE i

RECURSIVE ParseStringBody(_, _, _)
\* a JSON string whose body begins at i: the text read so far is acc
ParseStringBody(text, i, acc) ==
    IF i > Len(text) THEN ParseError
    ELSE LET c == text[i] IN
         IF c = "\"" THEN Parsed(PyStr(acc), i + 1)
         ELSE IF c = "\n" THEN ParseError
         ELSE IF c = "\\"
         THEN IF i + 1 > Len(text) THEN ParseError
              ELSE LET e == text[i + 1] IN
                   IF e \in {"\"", "\\", "/"}
                   THEN ParseStringBody(text, i + 2, Append(acc, e))
                   ELSE IF e = "n"
                   THEN ParseStringBody(text, i + 2, Append(acc, "\n"))
                   ELSE ParseError
         ELSE ParseStringBody(text, i + 1, Append(acc, c))

RECURSIVE DigitsEnd(_, _)
\* the first position from i on that holds no digit
DigitsEnd(text, i) ==
    IF i <= Len(text) /\ IsDigit(text[i]) THEN DigitsEnd(text, i + 1) ELSE i

RECURSIVE DigitsValue(_)
\* int(digits)
DigitsValue(digits) ==
    IF digits = <<>> THEN 0
    ELSE 10 * DigitsValue(Take(digits, Len(digits) - 1)) + (Ord(digits[Len(digits)]) - 48)

\* a JSON integer that begins at i: an optional "-", then "0" or digits that
\* do not begin with "0"
ParseInt(text, i) ==
    LET neg == text[i] = "-"
        from == IF neg THEN i + 1 ELSE i
        to == DigitsEnd(text, from)
        digits == SubSeq(text, from, to - 1)
    IN IF to = from \/ (digits[1] = "0" /\ to - from > 1) THEN ParseError
       ELSE IF to <= Len(text) /\ text[to] \in {".", "e", "E"} THEN ParseError
       ELSE Parsed(PyInt(IF neg THEN 0 - DigitsValue(digits) ELSE DigitsValue(digits)), to)

RECURSIVE ParseValue(_, _)
RECURSIVE ParseElems(_, _, _)
RECURSIVE ParseItems(_, _, _)
\* the JSON value that begins at or after i
ParseValue(text, i) ==
    LET j == SkipSpace(text, i) IN
    IF j > Len(text) THEN ParseError
    ELSE LET c == text[j] IN
         IF c = "\"" THEN ParseStringBody(text, j + 1, <<>>)
         ELSE IF c = "-" \/ IsDigit(c) THEN ParseInt(text, j)
         ELSE IF c = "n"
         THEN IF SubSeq(text, j, j + 3) = <<"n","u","l","l">>
              THEN Parsed(PyNone, j + 4) ELSE ParseError
         ELSE IF c = "["
         THEN LET k == SkipSpace(text, j + 1) IN
              IF k <= Len(text) /\ text[k] = "]" THEN Parsed(PyList(<<>>), k + 1)
              ELSE ParseElems(text, k, <<>>)
         ELSE IF c = "{"
         THEN LET k == SkipSpace(text, j + 1) IN
              IF k <= Len(text) /\ text[k] = "}" THEN Parsed(PyDict(<<>>), k + 1)
              ELSE ParseItems(text, k, <<>>)
         ELSE ParseError

\* the elements of a list from i on, acc being those read so far
ParseElems(text, i, acc) ==
    LET v == ParseValue(text, i) IN
    IF ~v.ok THEN ParseError
    ELSE LET k == SkipSpace(text, v.pos) IN
         IF k > Len(text) THEN ParseError
         ELSE IF text[k] = "," THEN ParseElems(text, k + 1, Append(acc, v.val))
         ELSE IF text[k] = "]" THEN Parsed(PyList(Append(acc, v.val)), k + 1)
         ELSE ParseError

\* the items of a dict from i on, acc being those read so far; a key read
\* again replaces its value
ParseItems(text, i, acc) ==
    LET j == SkipSpace(text, i) IN
    IF j > Len(text) \/ text[j] # "\"" THEN ParseError
    ELSE LET key == ParseStringBody(text, j + 1, <<>>) IN
         IF ~key.ok THEN ParseError
         ELSE LET c == SkipSpace(text, key.pos) IN
              IF c > Len(text) \/ text[c] # ":" THEN ParseError
              ELSE LET v == ParseValue(text, c + 1) IN
                   IF ~v.ok THEN ParseError
                   ELSE LET k == SkipSpace(text, v.pos) IN
                        IF k > Len(text) THEN ParseError
                        ELSE IF text[k] = ","
                        THEN ParseItems(text, k + 1, Put(acc, key.val.s, v.val))
                        ELSE IF text[k] = "}"
                        THEN Parsed(PyDict(Put(acc, key.val.s, v.val)), k + 1)
                        ELSE ParseError

\* json.loads(text): one value and nothing but white space after it
JsonParse(text) ==
    LET v == ParseValue(text, 1) IN
    IF v.ok /\ SkipSpace(text, v.pos) > Len(text) THEN v ELSE ParseError

(***************************************************************************)
(* Sample keys and the URLs the navigation endpoint may answer with        *)
(***************************************************************************)
KeyA == [i \in 1..32 |-> HexDigits[((i * 7) % 16) + 1]]

KeyB == [i \in 1..32 |-> HexDigits[((i * 11 + 3) % 16) + 1]]

KeyShort == <<"k">>

UrlOf(key) == <<"h",":","/","/","i",".","b","/","w","/">> \o key \o <<".","p","n","g">>

NavOk(img, sub) == [kind |-> "ok", img_url |-> UrlOf(img), sub_url |-> UrlOf(sub)]

\* a response the refresh fails on; with "no_sub_url" the body has its img_url
NavFail(kind) ==
    [kind |-> kind,
     img_url |-> IF kind = "no_sub_url" THEN UrlOf(KeyB) ELSE <<>>,
     sub_url |-> <<>>]

\* what a failed refresh fails on: the request (58), the status (59), the
\* body or its "data" (60), "wbi_img" or "img_url" (61), "sub_url" (62),
\* a URL that is no string (64)
NavFailKinds ==
    {"request_error", "bad_status", "bad_json", "no_data", "no_wbi_img",
     "no_img_url", "no_sub_url", "url_not_str"}

NavResponses ==
    {NavOk(KeyA, KeyB), NavOk(KeyShort, KeyShort)}
        \cup {NavFail(k) : k \in NavFailKinds}

(***************************************************************************)
(* State                                                                   *)
(***************************************************************************)
VARIABLES
    now,          \* time.time()
    ticks,        \* how often the clock has advanced
    cache,        \* _cached_wbi_keys
    \* get_wbi_keys, per task p
    kpc,          \* kpc[p]: where task p is in get_wbi_keys
    kt0,          \* kt0[p]: current_time of the call that awaits or raised
    kret,         \* kret[p]: what the call returned
    khow,         \* khow[p]: "cached" or "refreshed": the path of the return
    kpre,         \* kpre[p]: the cache when the call that awaits or raised began
    kdirty,       \* kdirty[p]: another call has written the cache since then
    navRequests,  \* requests sent to the navigation endpoint
    \* get_wbi_sign_params
    spc,          \* "idle", "returned" or "raised"
    sparams,      \* the items of the dict the call was given
    sts,          \* int(time.time()) of the call
    sout,         \* the items of the dict the call returned
    \* get_user_attentions
    upstream,     \* the follow-list the service holds, in its order
    fpc,          \* "idle", "keys" (line 220), "page" (line 235), "done", "raised"
    ft0,          \* current_time of the call of get_wbi_keys of line 220
    page,         \* page
    attentions_data,  \* attentions_data
    pageLog,      \* the pn of each request sent, in the order sent
    pageResponses,    \* how many of these requests have been answered
    fresult,      \* what the call returned
    ffail,        \* the step that raised, "none" when none did
    \* the persisted registry and update_vtb_list
    file,         \* vtb_list.json: whether it exists, and its bytes
    upc,          \* "idle", "awaiting" (line 123) or "done"
    umirror,      \* the index in urls of the mirror awaited
    vtb_list,     \* vtb_list of update_vtb_list
    mirrorLog,    \* the URLs requested by the refresh, in the order requested
    mirrorStatus, \* how each answered request of the refresh ended
    fileAtStart,  \* the file when the refresh began
    lastAnswer,   \* how the request answered last ended (line 123), its result (line 124)
    \* dump_vtb_list and load_vtb_list
    dumped,       \* the list last given to dump_vtb_list
    fileIs,       \* "absent", "dumped" (as dump_vtb_list left it) or "corrupt"
    lpc,          \* load_vtb_list: "idle", "returned" or "raised"
    lret,         \* what load_vtb_list returned
    lsaw,         \* fileIs when load_vtb_list was called
    \* get_vtb_list
    gpc,          \* "idle", "updating" (the await of line 171), "returned", "raised"
    gret,         \* what it returned
    \* render_ddcheck_image
    rpc,          \* "idle", "rendering" (awaits the template) or "raised"
    rargs,        \* its arguments
    rresult       \* the dict `result` of lines 301-310

clockVars == <<now, ticks>>

taskVars == <<kpc, kt0, kret, khow, kpre, kdirty, navRequests>>

signVars == <<spc, sparams, sts, sout>>

fetchVars ==
    <<upstream, fpc, ft0, page, attentions_data, pageLog, pageResponses, fresult, ffail>>

updateVars == <<upc, umirror, vtb_list, mirrorLog, mirrorStatus, fileAtStart, lastAnswer>>

storeVars == <<dumped, fileIs, lpc, lret, lsaw, gpc, gret>>

reportVars == <<rpc, rargs, rresult>>

vars == <<now, ticks, cache, taskVars, signVars, fetchVars, file, updateVars, storeVars,
          reportVars>>

Tasks == 1..NumTasks

(***************************************************************************)
(* get_wbi_keys, lines 44-75                                               *)
(***************************************************************************)
\* line 44
InitialCache == [img_key |-> <<>>, sub_key |-> <<>>, last_fetch |-> 0]

\* a mutant of IsFresh: the pair expires one second early
IsFreshEarly(c, t) == t - c.last_fetch < TTL - 1

\* line 52
IsFresh(c, t) == t - c.last_fetch < TTL

\* a mutant of Refreshed: each key is stored as soon as its URL is read, so
\* a body without sub_url leaves a new img_key beside the old sub_key
RefreshedPiecewise(c, resp, t) ==
    IF resp.kind = "ok"
    THEN [ok |-> TRUE,
          cache |-> [img_key |-> Stem(resp.img_url),
                     sub_key |-> Stem(resp.sub_url),
                     last_fetch |-> t]]
    ELSE IF resp.kind = "no_sub_url"
    THEN [ok |-> FALSE, cache |-> [c EXCEPT !.img_key = Stem(resp.img_url)]]
    ELSE [ok |-> FALSE, cache |-> c]

\* lines 58-69: the cache after the response resp, for a call whose
\* current_time is t; ok tells whether the call returns or raises
Refreshed(c, resp, t) ==
    IF resp.kind = "ok"
    THEN [ok |-> TRUE,
          cache |-> [img_key |-> Stem(resp.img_url),
                     sub_key |-> Stem(resp.sub_url),
                     last_fetch |-> t]]
    ELSE [ok |-> FALSE, cache |-> c]

(***************************************************************************)
(* get_wbi_sign_params, lines 77-110                                       *)
(***************************************************************************)
\* lines 81-88
mixinKeyEncTab ==
    <<46, 47, 18, 2, 53, 8, 23, 32, 15, 50, 10, 31, 58, 3, 45, 35, 27, 43, 5, 49,
      33, 9, 42, 19, 29, 28, 14, 36, 17, 20, 34, 44, 57, 16, 26, 56, 1, 40, 52, 37,
      55, 11, 41, 4, 22, 24, 21, 25, 54, 59, 7, 60, 6, 61, 51, 62, 2, 53, 8, 23, 32,
      15, 50, 10, 31, 58, 3, 45, 35, 27, 43, 5, 49, 33, 9, 42, 19, 29, 28, 14, 36,
      17, 20, 34, 44, 57, 16, 26, 56, 1, 40, 52, 37, 55, 11, 41, 4, 22, 24, 21, 25,
      54, 59, 7, 60, 6, 61, 51, 62>>

\* mixinKeyEncTab[:64], line 91
TabHead == Take(mixinKeyEncTab, IF Len(mixinKeyEncTab) < 64 THEN Len(mixinKeyEncTab) ELSE 64)

\* line 91 raises IndexError when orig_key is too short for an index of the table
MixinKeyRaises(orig_key) == \E k \in 1..Len(TabHead) : TabHead[k] >= Len(orig_key)

\* get_mixin_key, lines 90-91 (Python counts the characters from 0)
get_mixin_key(orig_key) == [k \in 1..Len(TabHead) |-> orig_key[TabHead[k] + 1]]

HexUpper == <<"0","1","2","3","4","5","6","7","8","9","A","B","C","D","E","F">>

\* "%XX" for each byte
RECURSIVE PercentBytes(_)
PercentBytes(bytes) ==
    IF bytes = <<>> THEN <<>>
    ELSE <<"%", HexUpper[(Head(bytes) \div 16) + 1], HexUpper[(Head(bytes) % 16) + 1]>>
             \o PercentBytes(Tail(bytes))

RECURSIVE quote_plus(_)
\* urllib.parse.quote_plus(text), line 102: letters, digits and "_.-~" stay,
\* a space becomes "+", every other character the "%XX" of its UTF-8 bytes
quote_plus(text) ==
    IF text = <<>> THEN <<>>
    ELSE LET c == Head(text) IN
         (IF IsAlnum(c) \/ c \in {"_", ".", "-", "~"} THEN <<c>>
          ELSE IF c = " " THEN <<"+">>
          ELSE PercentBytes(Utf8Char(c)))
             \o quote_plus(Tail(text))

RECURSIVE InsertItem(_, _)
\* item put into the sorted items before the first one with a greater key
InsertItem(item, sorted) ==
    IF sorted = <<>> THEN <<item>>
    ELSE IF TextLess(item[1], Head(sorted)[1]) THEN <<item>> \o sorted
    ELSE <<Head(sorted)>> \o InsertItem(item, Tail(sorted))

\* a mutant of SortItems: the items are left in the order of insertion
SortItemsUnsorted(items) == items

RECURSIVE SortItems(_)
\* dict(sorted(params.items())), line 98: the keys of a dict are distinct, so
\* the order of the keys decides
SortItems(items) ==
    IF items = <<>> THEN <<>>
    ELSE InsertItem(items[Len(items)], SortItems(Take(items, Len(items) - 1)))

RECURSIVE JoinQuery(_)
\* lines 101-104
JoinQuery(items) ==
    IF items = <<>> THEN <<>>
    ELSE Head(items)[1] \o <<"=">> \o quote_plus(StrOf(Head(items)[2]))
             \o (IF Len(items) > 1 THEN <<"&">> ELSE <<>>)
             \o JoinQuery(Tail(items))

\* hashlib.md5(text.encode("utf-8")).hexdigest(), line 107.  The digest is
\* not computed: it is written as the marker "md5:" before the hashed text,
\* a one-to-one stand-in for the hash.
Md5Hex(text) == <<"md5:">> \o text

\* lines 79-110 for keys that are long enough: the items of the dict returned,
\* t being int(time.time())
get_wbi_sign_params(params, c, t) ==
    LET mixin_key == get_mixin_key(c.img_key \o c.sub_key)
        with_wts == Put(params, K.wts, PyInt(t))
        sorted_params == SortItems(with_wts)
        query == JoinQuery(sorted_params)
        hash_value == Md5Hex(query \o mixin_key)
    IN Put(sorted_params, K.w_rid, PyStr(hash_value))

\* whether the call raises (IndexError, line 91)
SignRaises(c) == MixinKeyRaises(c.img_key \o c.sub_key)

TasksIdle ==
    /\ kpc = [p \in Tasks |-> "idle"]
    /\ kt0 = [p \in Tasks |-> 0]
    /\ kret = [p \in Tasks |-> <<>>]
    /\ khow = [p \in Tasks |-> "none"]
    /\ kpre = [p \in Tasks |-> InitialCache]
    /\ kdirty = [p \in Tasks |-> FALSE]
    /\ navRequests = 0

SignIdle ==
    /\ spc = "idle"
    /\ sparams = <<>>
    /\ sts = 0
    /\ sout = <<>>

\* the process has started: the clock is far beyond the epoch, so the cache
\* of line 44 is stale
FetchIdle ==
    /\ fpc = "idle"
    /\ ft0 = 0
    /\ page = 1
    /\ attentions_data = <<>>
    /\ pageLog = <<>>
    /\ pageResponses = 0
    /\ fresult = <<>>
    /\ ffail = "none"

NoFile == [exists |-> FALSE, bytes |-> <<>>]

UpdateIdle ==
    /\ upc = "idle"
    /\ umirror = 0
    /\ vtb_list = <<>>
    /\ mirrorLog = <<>>
    /\ mirrorStatus = <<>>
    /\ fileAtStart = NoFile
    /\ lastAnswer = [kind |-> "none", result |-> PyNone]

StoreIdle ==
    /\ dumped = <<>>
    /\ fileIs = "absent"
    /\ lpc = "idle"
    /\ lret = PyNone
    /\ lsaw = "none"
    /\ gpc = "idle"
    /\ gret = PyNone

NoArgs == [user_info |-> PyNone, vtb_list |-> <<>>, attentions |-> <<>>, medal_list |-> <<>>]

ReportIdle ==
    /\ rpc = "idle"
    /\ rargs = NoArgs
    /\ rresult = PyNone

KeysInit ==
    /\ now = TTL
    /\ ticks = 0
    /\ cache = InitialCache
    /\ TasksIdle
    /\ SignIdle
    /\ upstream = <<>>
    /\ FetchIdle
    /\ file = NoFile
    /\ UpdateIdle
    /\ StoreIdle
    /\ ReportIdle

\* the clock advances
Tick ==
    /\ ticks < MaxTicks
    /\ \E d \in {1, TTL - 1} : now' = now + d
    /\ ticks' = ticks + 1

\* lines 49-58: task p calls get_wbi_keys and runs to the return of line 53
\* or to the await of line 58
KeysCall(p) ==
    /\ kpc[p] = "idle"
    /\ IF IsFresh(cache, now)
       THEN /\ kpc' = [kpc EXCEPT ![p] = "returned"]
            /\ kret' = [kret EXCEPT ![p] = <<cache.img_key, cache.sub_key>>]
            /\ khow' = [khow EXCEPT ![p] = "cached"]
            /\ UNCHANGED <<kt0, kpre, navRequests>>
       ELSE /\ navRequests < MaxNavRequests
            /\ kpc' = [kpc EXCEPT ![p] = "awaiting"]
            /\ kt0' = [kt0 EXCEPT ![p] = now]
            /\ kpre' = [kpre EXCEPT ![p] = cache]
            /\ navRequests' = navRequests + 1
            /\ UNCHANGED <<kret, khow>>
    /\ UNCHANGED <<now, ticks, cache, kdirty>>

\* lines 58-75: the response to task p's request arrives
KeysRespond(p) ==
    /\ kpc[p] = "awaiting"
    /\ \E resp \in NavResponses :
         LET r == Refreshed(cache, resp, kt0[p]) IN
         /\ cache' = r.cache
         /\ IF r.ok
            THEN /\ kpc' = [kpc EXCEPT ![p] = "returned"]
                 /\ kret' = [kret EXCEPT ![p] = <<r.cache.img_key, r.cache.sub_key>>]
                 /\ khow' = [khow EXCEPT ![p] = "refreshed"]
                 /\ kt0' = [kt0 EXCEPT ![p] = 0]
                 /\ kpre' = [kpre EXCEPT ![p] = InitialCache]
                 /\ kdirty' = [q \in Tasks |-> q # p /\ kpc[q] \in {"awaiting", "raised"}]
            ELSE /\ kpc' = [kpc EXCEPT ![p] = "raised"]
                 /\ UNCHANGED <<kret, khow, kt0, kpre, kdirty>>
    /\ UNCHANGED <<now, ticks, navRequests>>

\* the caller goes on and task p may call again
KeysAgain(p) ==
    /\ kpc[p] \in {"returned", "raised"}
    /\ kpc' = [kpc EXCEPT ![p] = "idle"]
    /\ kt0' = [kt0 EXCEPT ![p] = 0]
    /\ kret' = [kret EXCEPT ![p] = <<>>]
    /\ khow' = [khow EXCEPT ![p] = "none"]
    /\ kpre' = [kpre EXCEPT ![p] = InitialCache]
    /\ kdirty' = [kdirty EXCEPT ![p] = FALSE]
    /\ UNCHANGED <<now, ticks, cache, navRequests>>

\* what the calls of get_wbi_keys leave alone
KeysFrame == UNCHANGED <<signVars, fetchVars, file, updateVars, storeVars, reportVars>>

KeysNext ==
    \/ Tick /\ UNCHANGED <<cache, taskVars>> /\ KeysFrame
    \/ \E p \in Tasks : KeysCall(p) /\ KeysFrame
    \/ \E p \in Tasks : KeysRespond(p) /\ KeysFrame
    \/ \E p \in Tasks : KeysAgain(p) /\ KeysFrame

SpecKeys == KeysInit /\ [][KeysNext]_vars

(***************************************************************************)
(* C2, C3, C4: get_wbi_keys                                                *)
(***************************************************************************)
\* the requests to the navigation endpoint that are in flight: one for each
\* task at the await of line 58
Outstanding == {p \in Tasks : kpc[p] = "awaiting"}

\* C2: calls of ensure_fresh that overlap on a stale pair share one request to
\* the navigation endpoint: no two requests are ever in flight together.
C2_OneRequestPerExpiry == Cardinality(Outstanding) <= 1

\* C3: a call made while the pair's age is below 1800 seconds returns the
\* cached image_key and sub_key, sends no request and leaves image_key,
\* sub_key and fetched_at as they are.
C3_FreshCallReadsCache ==
    [][\A p \in Tasks :
         (kpc[p] = "idle" /\ kpc'[p] # "idle" /\ now - cache.last_fetch < TTL)
             => /\ kpc'[p] = "returned"
                /\ kret'[p] = <<cache.img_key, cache.sub_key>>
                /\ cache' = cache
                /\ navRequests' = navRequests]_vars

\* a call has returned the fetched pair from the cache at the age of 1799 seconds
C3_Witness ==
    \E p \in Tasks :
        /\ kpc[p] = "returned"
        /\ khow[p] = "cached"
        /\ kret[p] = <<KeyA, KeyB>>
        /\ now - cache.last_fetch = TTL - 1

\* C4: a refresh that fails ends the call in an error and writes nothing: the
\* cache is the one the call found (unless another call has refreshed it in
\* the meantime), so it is still stale, and the next call on the stale cache
\* sends a request again.
C4_FailedRefreshKeepsCache ==
    [][/\ \A p \in Tasks :
            (kpc[p] = "awaiting" /\ kpc'[p] = "raised")
                => /\ cache' = cache
                   /\ ~kdirty[p] => (cache' = kpre[p] /\ now' - cache'.last_fetch >= TTL)
       /\ \A p \in Tasks :
            (kpc[p] = "idle" /\ kpc'[p] # "idle" /\ now - cache.last_fetch >= TTL)
                => (kpc'[p] = "awaiting" /\ navRequests' = navRequests + 1)]_vars

\* a refresh of a fetched pair that went stale has failed, and the pair is there
C4_Witness ==
    \E p \in Tasks :
        /\ kpc[p] = "raised"
        /\ ~kdirty[p]
        /\ kpre[p].img_key = KeyA
        /\ cache = kpre[p]
        /\ navRequests = 2

(***************************************************************************)
(* SpecSign: get_wbi_sign_params on the parameter dicts of its callers     *)
(***************************************************************************)
\* parameters per dict
MaxParams == 3

\* the cache after a refresh at time t that read keys img and sub
Fetched(img, sub, t) == [img_key |-> img, sub_key |-> sub, last_fetch |-> t]

\* the fields the callers of lines 179 and 224-230 pass, and a "wts" of the
\* caller's own; w_rid is the field the call adds, no field of its input
ParamChoices ==
    {<<K.vmid, PyInt(7)>>, <<K.pn, PyInt(12)>>, <<K.ps, PyInt(50)>>,
     <<K.order, PyStr(<<"d","e","s","c">>)>>,
     <<K.keyword, PyStr(<<"a"," ","&","U+4E2D","_","Z">>)>>,
     <<K.wts, PyInt(5)>>}

RECURSIVE DictsUpTo(_)
\* the dicts of at most n of these fields, in every order of insertion
DictsUpTo(n) ==
    IF n = 0 THEN {<<>>}
    ELSE LET prev == DictsUpTo(n - 1) IN
         prev \cup {Append(x[1], x[2]) :
                      x \in {y \in prev \X ParamChoices : ~Has(y[1], y[2][1])}}

SignInputs == DictsUpTo(MaxParams)

SignInit ==
    /\ now = TTL
    /\ ticks = 0
    /\ cache \in {InitialCache, Fetched(KeyShort, KeyShort, TTL),
                  Fetched(KeyA, KeyB, TTL), Fetched(KeyB, KeyA, TTL)}
    /\ TasksIdle
    /\ SignIdle
    /\ upstream = <<>>
    /\ FetchIdle
    /\ file = NoFile
    /\ UpdateIdle
    /\ StoreIdle
    /\ ReportIdle

\* lines 77-110
SignCall ==
    /\ spc = "idle"
    /\ \E params \in SignInputs :
         /\ sparams' = params
         /\ sts' = now
         /\ IF SignRaises(cache)
            THEN spc' = "raised" /\ sout' = <<>>
            ELSE spc' = "returned" /\ sout' = get_wbi_sign_params(params, cache, now)
    /\ UNCHANGED <<clockVars, cache, taskVars, fetchVars, file, updateVars, storeVars, reportVars>>

\* the caller goes on
SignAgain ==
    /\ spc \in {"returned", "raised"}
    /\ spc' = "idle"
    /\ sparams' = <<>>
    /\ sts' = 0
    /\ sout' = <<>>
    /\ UNCHANGED <<clockVars, cache, taskVars, fetchVars, file, updateVars, storeVars, reportVars>>

SignNext ==
    \/ Tick /\ UNCHANGED <<cache, taskVars, signVars, fetchVars, file, updateVars, storeVars, reportVars>>
    \/ SignCall
    \/ SignAgain

SpecSign == SignInit /\ [][SignNext]_vars

(***************************************************************************)
(* SpecFetch: get_user_attentions, lines 213-256                           *)
(***************************************************************************)
\* entries of the longest follow-list
MaxFollow == 120

\* line 218
page_size == 50

\* the subject of the lookup
FetchUid == 7

\* entry i of the follow-list as the service sends it: mid and uname among
\* its fields
UpstreamUser(i) ==
    PyDict(<< <<K.mid, PyInt(1000 + i)>>,
              <<K.face, PyStr(<<"f">>)>>,
              <<K.uname, PyStr(<<"u">> \o IntText(i))>> >>)

\* the list of page pn of a follow-list served ps entries a page
PageOf(list, pn, ps) ==
    SubSeq(list, (pn - 1) * ps + 1, IF pn * ps < Len(list) THEN pn * ps ELSE Len(list))

\* what a page fails on: the request (235), the status (236), the body or
\* its "data" (238), "list" (240), an entry without "mid" or "uname" (243)
PageFailKinds ==
    {"request_error", "bad_status", "bad_json", "no_data", "no_list", "bad_entry"}

\* lines 224-230
PageParams(uid, pn) ==
    << <<K.vmid, PyInt(uid)>>, <<K.pn, PyInt(pn)>>, <<K.ps, PyInt(page_size)>>,
       <<K.order, PyStr(<<"d","e","s","c">>)>>,
       <<K.jsonp, PyStr(<<"j","s","o","n","p">>)>> >>

\* line 243
FollowEntry(user) ==
    PyDict(<< <<K.mid, Get(user.items, K.mid)>>, <<K.uname, Get(user.items, K.uname)>> >>)

\* a mutant of OnException: what was accumulated is returned
OnExceptionPartial(acc) == [raised |-> FALSE, result |-> acc]

\* lines 254-256: every exception of the try block is caught and [] returned
OnException(acc) == [raised |-> FALSE, result |-> <<>>]

\* a mutant of ShortPage: a full page ends the loop too
ShortPageOrFull(list) == Len(list) <= page_size

\* a mutant of ShortPage: only an empty page ends the loop
ShortPageNever(list) == FALSE

\* line 245
ShortPage(list) == Len(list) < page_size

FetchInit ==
    /\ now = TTL
    /\ ticks = 0
    /\ cache \in {InitialCache, Fetched(KeyShort, KeyShort, TTL), Fetched(KeyA, KeyB, TTL)}
    /\ TasksIdle
    /\ SignIdle
    /\ \E n \in 0..MaxFollow : upstream = [i \in 1..n |-> UpstreamUser(i)]
    /\ FetchIdle
    /\ file = NoFile
    /\ UpdateIdle
    /\ StoreIdle
    /\ ReportIdle

\* a step of the try block raises: lines 254-256
FetchExcept(kind, acc) ==
    /\ fpc' = IF OnException(acc).raised THEN "raised" ELSE "done"
    /\ fresult' = OnException(acc).result
    /\ ffail' = kind
    /\ attentions_data' = acc
    /\ UNCHANGED <<page, pageLog>>

\* lines 251-252
FetchReturn(acc) ==
    /\ fpc' = "done"
    /\ fresult' = acc
    /\ attentions_data' = acc
    /\ UNCHANGED <<page, pageLog, ffail>>

\* lines 224-235: page pn is signed with the keys of cache c and requested
FetchRequest(pn, c, acc) ==
    IF SignRaises(c)
    THEN FetchExcept("sign", acc)
    ELSE /\ fpc' = "page"
         /\ page' = pn
         /\ attentions_data' = acc
         /\ pageLog' = Append(pageLog,
                Get(get_wbi_sign_params(PageParams(FetchUid, pn), c, now), K.pn).n)
         /\ UNCHANGED <<fresult, ffail>>

\* lines 215-235: the call runs to the await of line 58 (stale keys) or to
\* the request of page 1
FetchCall ==
    /\ fpc = "idle"
    /\ IF IsFresh(cache, now)
       THEN /\ FetchRequest(1, cache, <<>>)
            /\ UNCHANGED <<ft0, navRequests>>
       ELSE /\ fpc' = "keys"
            /\ ft0' = now
            /\ navRequests' = navRequests + 1
            /\ UNCHANGED <<page, attentions_data, pageLog, fresult, ffail>>
    /\ UNCHANGED <<clockVars, cache, kpc, kt0, kret, khow, kpre, kdirty,
                   signVars, upstream, pageResponses>>

\* lines 58-75 and 220-235: the navigation endpoint answers
FetchKeysRespond ==
    /\ fpc = "keys"
    /\ \E resp \in NavResponses :
         LET r == Refreshed(cache, resp, ft0) IN
         /\ cache' = r.cache
         /\ IF r.ok
            THEN FetchRequest(1, r.cache, <<>>)
            ELSE FetchExcept("key_refresh", <<>>)
    /\ UNCHANGED <<clockVars, taskVars, signVars, upstream, ft0, pageResponses>>

\* lines 235-249: the answer to the request of the page arrives
FetchPageRespond ==
    /\ fpc = "page"
    /\ pageResponses' = pageResponses + 1
    /\ LET list == PageOf(upstream, page, page_size)
           entries == [i \in 1..Len(list) |-> FollowEntry(list[i])]
       IN \/ \E kind \in PageFailKinds \ {"bad_entry"} :
                FetchExcept(kind, attentions_data)
          \/ /\ list # <<>>
             /\ FetchExcept("bad_entry",
                            attentions_data \o Take(entries, Len(entries) - 1))
          \/ IF list # <<>>
             THEN IF ShortPage(list)
                  THEN FetchReturn(attentions_data \o entries)
                  ELSE FetchRequest(page + 1, cache, attentions_data \o entries)
             ELSE FetchReturn(attentions_data)
    /\ UNCHANGED <<clockVars, cache, taskVars, signVars, upstream, ft0>>

\* what get_user_attentions leaves alone
FetchFrame == UNCHANGED <<file, updateVars, storeVars, reportVars>>

FetchNext ==
    \/ FetchCall /\ FetchFrame
    \/ FetchKeysRespond /\ FetchFrame
    \/ FetchPageRespond /\ FetchFrame

SpecFetch == FetchInit /\ [][FetchNext]_vars

\* C5: fetch_all never raises and never returns a part of the follow-list:
\* when a step of the call has failed (the key refresh, the signing, or the
\* request, status or parsing of a page) the call has returned the empty
\* sequence, whatever had been accumulated, and no page was requested twice.
C5_EmptyOnFailure ==
    /\ fpc # "raised"
    /\ (fpc = "done" /\ ffail # "none") => fresult = <<>>
    /\ ffail # "none" => fpc = "done"
    /\ \A i \in 1..Len(pageLog) : pageLog[i] = i

\* the second page has failed after the 50 entries of the first were
\* accumulated, and the call has returned the empty sequence
C5_Witness ==
    /\ fpc = "done"
    /\ ffail = "bad_status"
    /\ pageLog = <<1, 2>>
    /\ Len(attentions_data) = page_size
    /\ fresult = <<>>

\* C6: for a follow-list of N pages whose last page holds 1 to 49 entries, the
\* requests sent are those of the pages 1, 2, ... in this order and never
\* more than N of them, each sent once the request before it is answered; a
\* call that no step fails ends with exactly the N requests 1..N.
C6_ExactlyNPages ==
    LET T == Len(upstream)
        N == (T + page_size - 1) \div page_size
    IN (T % page_size \in 1..(page_size - 1)) =>
          /\ Len(pageLog) <= N
          /\ \A i \in 1..Len(pageLog) : pageLog[i] = i
          /\ pageResponses = Len(pageLog) - (IF fpc = "page" THEN 1 ELSE 0)
          /\ (fpc = "done" /\ ffail = "none") => Len(pageLog) = N

\* a follow-list of three pages, the last one short, has been fetched
C6_Witness ==
    /\ fpc = "done"
    /\ ffail = "none"
    /\ Len(upstream) = 2 * page_size + 7
    /\ pageLog = <<1, 2, 3>>
    /\ Len(fresult) = Len(upstream)

(***************************************************************************)
(* dump_vtb_list and load_vtb_list, lines 148-166                          *)
(***************************************************************************)
\* lines 158-166: the file after dump_vtb_list(list)
DumpFile(list) == [exists |-> TRUE, bytes |-> Utf8Encode(JsonText(PyList(list), 0))]

\* lines 148-156 on file f: whether the call raises, what it returns, and the
\* file after it.  The file is decoded as UTF-8 when json.load reads it
\* (line 150, 152): bytes that are no UTF-8 raise UnicodeDecodeError, which
\* line 153 does not catch.
load_vtb_list(f) ==
    IF ~f.exists THEN [raised |-> FALSE, result |-> PyList(<<>>), file |-> f]
    ELSE LET d == Utf8Decode(f.bytes) IN
         IF ~d.ok THEN [raised |-> TRUE, result |-> PyNone, file |-> f]
         ELSE LET v == JsonParse(d.text) IN
              IF v.ok THEN [raised |-> FALSE, result |-> v.val, file |-> f]
              ELSE [raised |-> FALSE, result |-> PyList(<<>>), file |-> NoFile]

(***************************************************************************)
(* update_vtb_list, lines 112-139                                          *)
(***************************************************************************)
\* lines 114-119
urls ==
    <<"https://api.vtbs.moe/v1/short", "https://cfapi.vtbs.moe/v1/short",
      "https://hkapi.vtbs.moe/v1/short", "https://kr.vtbs.moe/v1/short">>

\* whether int(v) raises, line 130: v is an int or a str of digits
IntRaises(v) ==
    ~(v.t = "int" \/ (v.t = "str" /\ v.s # <<>> /\ \A i \in 1..Len(v.s) : IsDigit(v.s[i])))

\* int(v), line 130
IntOf(v) == IF v.t = "int" THEN v.n ELSE DigitsValue(v.s)

RECURSIVE ProcessInfos(_, _)
\* lines 127-133 from the list vtb on: raised tells whether an entry raised
\* (one that is no dict at line 128, a uid that is no number at line 130);
\* vtb_list is the list as the loop left it
ProcessInfos(vtb, infos) ==
    IF infos = <<>> THEN [raised |-> FALSE, vtb_list |-> vtb]
    ELSE LET info == Head(infos) IN
         IF info.t # "dict" THEN [raised |-> TRUE, vtb_list |-> vtb]
         ELSE LET uid == GetOrNone(info.items, K.uid)
                  mid == GetOrNone(info.items, K.mid)
                  uname == GetOrNone(info.items, K.uname)
                  by_uid == Truthy(uid) /\ Truthy(uname)
                  by_mid == Truthy(mid) /\ Truthy(uname)
              IN IF by_uid /\ IntRaises(uid) THEN [raised |-> TRUE, vtb_list |-> vtb]
                 ELSE LET vtb1 == IF by_uid
                                  THEN Append(vtb, PyDict(<< <<K.mid, PyInt(IntOf(uid))>>,
                                                             <<K.uname, uname>> >>))
                                  ELSE vtb
                          vtb2 == IF by_mid THEN Append(vtb1, info) ELSE vtb1
                      IN ProcessInfos(vtb2, Tail(infos))

\* lines 122-138 for the answer of one mirror: how the iteration ends
\* ("timeout", "error", "empty": line 126, "raise": an entry raised, "break")
\* and vtb_list after it
ProcessAnswer(vtb, answer) ==
    IF answer.kind # "json" THEN [status |-> answer.kind, vtb_list |-> vtb]
    ELSE IF ~Truthy(answer.result) THEN [status |-> "empty", vtb_list |-> vtb]
    ELSE IF answer.result.t # "list" THEN [status |-> "raise", vtb_list |-> vtb]
    ELSE LET r == ProcessInfos(vtb, answer.result.elems) IN
         [status |-> IF r.raised THEN "raise" ELSE "break", vtb_list |-> r.vtb_list]

\* a mutant of AfterMirror: the break of line 134 is missing
AfterMirrorNoBreak(status, i) == IF i = Len(urls) THEN "dump" ELSE "next"

\* lines 121, 134-139: after mirror i ended with status, the loop goes on to
\* the next mirror, or ends and vtb_list is dumped
AfterMirror(status, i) == IF status = "break" \/ i = Len(urls) THEN "dump" ELSE "next"

\* entries as the mirrors send them
Info ==
    [A |-> PyDict(<< <<K.uid, PyInt(5)>>, <<K.uname, PyStr(<<"a">>)>> >>),
     B |-> PyDict(<< <<K.mid, PyInt(23)>>, <<K.uname, PyStr(<<"U+4E2D", "\"", "\\", "\n">>)>> >>),
     C |-> PyDict(<< <<K.uid, PyStr(<<"7">>)>>, <<K.mid, PyInt(7)>>, <<K.uname, PyStr(<<"c">>)>> >>),
     NoName |-> PyDict(<< <<K.mid, PyInt(8)>> >>),
     BadUid |-> PyDict(<< <<K.uid, PyStr(<<"x">>)>>, <<K.uname, PyStr(<<"d">>)>> >>)]

\* what resp.json() of a mirror may be
MirrorResults ==
    {PyList(<<>>), PyNone, PyDict(<< <<K.uname, PyStr(<<"e">>)>> >>),
     PyList(<<Info.A>>), PyList(<<Info.B, Info.C>>), PyList(<<Info.NoName>>),
     PyList(<<Info.A, Info.BadUid>>), PyList(<<PyStr(<<"x">>)>>)}

\* how a request of line 123 may end: httpx.TimeoutException, another
\* exception of the request or of resp.json(), or a JSON value
MirrorAnswers ==
    {[kind |-> "timeout", result |-> PyNone], [kind |-> "error", result |-> PyNone]}
        \cup {[kind |-> "json", result |-> r] : r \in MirrorResults}

\* the lists update_vtb_list hands to dump_vtb_list after one mirror
Registries == {ProcessAnswer(<<>>, a).vtb_list : a \in MirrorAnswers}

(***************************************************************************)
(* SpecRegistry: a refresh of the registry                                 *)
(***************************************************************************)
RegistryInit ==
    /\ now = TTL
    /\ ticks = 0
    /\ cache = InitialCache
    /\ TasksIdle
    /\ SignIdle
    /\ upstream = <<>>
    /\ FetchIdle
    /\ \E r \in Registries :
         \/ file = NoFile /\ dumped = <<>> /\ fileIs = "absent"
         \/ file = DumpFile(r) /\ dumped = r /\ fileIs = "dumped"
    /\ UpdateIdle
    /\ lpc = "idle"
    /\ lret = PyNone
    /\ lsaw = "none"
    /\ gpc = "idle"
    /\ gret = PyNone
    /\ ReportIdle

\* line 123: mirror i is requested
RequestMirror(i) ==
    /\ upc' = "awaiting"
    /\ umirror' = i
    /\ mirrorLog' = Append(mirrorLog, urls[i])
    /\ UNCHANGED <<file, dumped, fileIs>>

\* lines 112-123: update_vtb_list is called and runs to its first await
UpdateCall ==
    /\ upc = "idle"
    /\ vtb_list' = <<>>
    /\ fileAtStart' = file
    /\ RequestMirror(1)
    /\ UNCHANGED <<mirrorStatus, lastAnswer>>

\* lines 123-139: the answer of the awaited mirror arrives
MirrorRespond ==
    /\ upc = "awaiting"
    /\ \E answer \in MirrorAnswers :
         LET r == ProcessAnswer(vtb_list, answer) IN
         /\ vtb_list' = r.vtb_list
         /\ mirrorStatus' = Append(mirrorStatus, r.status)
         /\ lastAnswer' = answer
         /\ IF AfterMirror(r.status, umirror) = "next"
            THEN RequestMirror(umirror + 1)
            ELSE /\ upc' = "done"
                 /\ file' = DumpFile(r.vtb_list)
                 /\ dumped' = r.vtb_list
                 /\ fileIs' = "dumped"
                 /\ UNCHANGED <<umirror, mirrorLog>>
    /\ UNCHANGED fileAtStart

\* what a refresh leaves alone
RegistryFrame ==
    UNCHANGED <<clockVars, cache, taskVars, signVars, fetchVars, lpc, lret, lsaw, gpc, gret,
                reportVars>>

RegistryNext ==
    \/ UpdateCall /\ RegistryFrame
    \/ MirrorRespond /\ RegistryFrame

SpecRegistry == RegistryInit /\ [][RegistryNext]_vars

(***************************************************************************)
(* C1, C7                                                                  *)
(***************************************************************************)
\* the persisted registry: what load_vtb_list reads from file f
Persisted(f) == load_vtb_list(f).result

\* every mirror of the refresh has failed: its request timed out or raised,
\* or its result was empty
AllMirrorsFailed ==
    /\ upc = "done"
    /\ \A i \in 1..Len(mirrorStatus) : mirrorStatus[i] \in {"timeout", "error", "empty"}

\* C1: after a refresh in which every mirror failed (a timeout, an exception,
\* an empty result), the persisted registry is the one persisted before the
\* refresh: a registry with entries is not replaced by an empty one.
C1_TotalFailureKeepsRegistry ==
    AllMirrorsFailed => Persisted(file) = Persisted(fileAtStart)

\* C7: the mirrors are requested in the order of the list, one at a time; a
\* mirror that timed out, raised or answered with an empty result is followed
\* by the next one, and no mirror is requested after one that gave a result.
C7_MirrorsInOrder ==
    /\ Len(mirrorLog) <= Len(urls)
    /\ \A i \in 1..Len(mirrorLog) : mirrorLog[i] = urls[i]
    /\ Len(mirrorStatus) = Len(mirrorLog) - (IF upc = "awaiting" THEN 1 ELSE 0)
    /\ \A i \in 1..Len(mirrorStatus) :
         /\ (mirrorStatus[i] = "break") => Len(mirrorLog) = i
         /\ (mirrorStatus[i] # "break" /\ i < Len(urls)) => Len(mirrorLog) > i
    /\ upc = "done" =>
         (mirrorStatus[Len(mirrorStatus)] = "break" \/ Len(mirrorLog) = Len(urls))

\* mirrors 1 and 2 have failed, mirror 3 gave a result, mirror 4 was not called
C7_Witness ==
    /\ upc = "done"
    /\ mirrorStatus = <<"timeout", "empty", "break">>
    /\ mirrorLog = Take(urls, 3)
    /\ vtb_list # <<>>

(***************************************************************************)
(* SpecStore: dump_vtb_list, load_vtb_list and a file that gets damaged    *)
(***************************************************************************)
StoreInit ==
    /\ now = TTL
    /\ ticks = 0
    /\ cache = InitialCache
    /\ TasksIdle
    /\ SignIdle
    /\ upstream = <<>>
    /\ FetchIdle
    /\ file = NoFile
    /\ UpdateIdle
    /\ StoreIdle
    /\ ReportIdle

\* lines 158-166: dump_vtb_list is called with a list update_vtb_list built
StoreDump ==
    /\ lpc = "idle"
    /\ \E list \in Registries :
         /\ file' = DumpFile(list)
         /\ dumped' = list
    /\ fileIs' = "dumped"
    /\ UNCHANGED <<lpc, lret, lsaw>>

\* the file is cut short, as by a crash or a full disk while it is written:
\* no proper prefix of what json.dump writes is valid JSON
Corrupt ==
    /\ lpc = "idle"
    /\ fileIs = "dumped"
    /\ \E k \in 0..(Len(file.bytes) - 1) :
         file' = [exists |-> TRUE, bytes |-> Take(file.bytes, k)]
    /\ fileIs' = "corrupt"
    /\ UNCHANGED <<dumped, lpc, lret, lsaw>>

\* lines 148-156
LoadCall ==
    /\ lpc = "idle"
    /\ LET r == load_vtb_list(file) IN
         /\ lpc' = IF r.raised THEN "raised" ELSE "returned"
         /\ lret' = r.result
         /\ file' = r.file
         /\ fileIs' = IF r.file.exists THEN fileIs ELSE "absent"
    /\ lsaw' = fileIs
    /\ UNCHANGED dumped

\* the caller goes on
LoadAgain ==
    /\ lpc \in {"returned", "raised"}
    /\ lpc' = "idle"
    /\ lret' = PyNone
    /\ lsaw' = "none"
    /\ UNCHANGED <<file, dumped, fileIs>>

\* what the store operations leave alone
StoreFrame ==
    UNCHANGED <<clockVars, cache, taskVars, signVars, fetchVars, updateVars, gpc, gret,
                reportVars>>

StoreNext ==
    \/ StoreDump /\ StoreFrame
    \/ Corrupt /\ StoreFrame
    \/ LoadCall /\ StoreFrame
    \/ LoadAgain /\ StoreFrame

SpecStore == StoreInit /\ [][StoreNext]_vars

(***************************************************************************)
(* C10                                                                     *)
(***************************************************************************)
\* load_vtb_list gave back the entries that were dumped, in their order
C10_RoundTrip == (lpc # "idle" /\ lsaw = "dumped") => (lpc = "returned" /\ lret = PyList(dumped))

\* C10: load_vtb_list after dump_vtb_list returns the entries dumped, in the
\* same order; on a file that exists and is not valid JSON it returns the
\* empty sequence without raising, and the file exists no more.
C10_RoundTripAndCorruption ==
    /\ C10_RoundTrip
    /\ (lpc # "idle" /\ lsaw = "corrupt") =>
           (lpc = "returned" /\ lret = PyList(<<>>) /\ ~file.exists)

(***************************************************************************)
(* render_ddcheck_image, lines 269-312                                     *)
(***************************************************************************)
RECURSIVE HexText(_)
\* format(n, "X") for n >= 0
HexText(n) ==
    IF n < 16 THEN <<HexUpper[n + 1]>>
    ELSE HexText(n \div 16) \o <<HexUpper[(n % 16) + 1]>>

RECURSIVE ZeroPad(_, _)
\* s padded with zeros on the left to the width w
ZeroPad(s, w) == IF Len(s) >= w THEN s ELSE ZeroPad(<<"0">> \o s, w)

\* lines 269-270: f"#{color:06X}" for a colour that is not negative
format_color(color) == <<"#">> \o ZeroPad(HexText(color), 6)

\* lines 272-285
format_vtb_info(info, medal_dict) ==
    LET name == Get(info.items, K.uname)
        uid == Get(info.items, K.mid)
        medal_info == Get(Get(medal_dict, name).items, K.medal_info).items
        medal ==
            IF Has(medal_dict, name)
            THEN << <<K.name, Get(medal_info, K.medal_name)>>,
                    <<K.level, Get(medal_info, K.level)>>,
                    <<K.color_border,
                      PyStr(format_color(Get(medal_info, K.medal_color_border).n))>>,
                    <<K.color_start,
                      PyStr(format_color(Get(medal_info, K.medal_color_start).n))>>,
                    <<K.color_end,
                      PyStr(format_color(Get(medal_info, K.medal_color_end).n))>> >>
            ELSE <<>>
    IN PyDict(<< <<K.name, name>>, <<K.uid, uid>>, <<K.medal, PyDict(medal)>> >>)

RECURSIVE DictByFirst(_, _, _)
\* a mutant of DictBy: a key that comes again keeps its first value
DictByFirst(items, k, list) ==
    IF list = <<>> THEN items
    ELSE LET key == Get(Head(list).items, k) IN
         DictByFirst(IF Has(items, key) THEN items ELSE Append(items, <<key, Head(list)>>),
                     k, Tail(list))

RECURSIVE DictBy(_, _, _)
\* {x[k]: x for x in list} from the dict `items` on: a key that comes again
\* keeps its place and takes the later value
DictBy(items, k, list) ==
    IF list = <<>> THEN items
    ELSE IF Len(list) = 1 THEN Put(items, Get(list[1].items, k), list[1])
    ELSE LET h == Len(list) \div 2
             first == DictBy(items, k, Take(list, h))
         IN \* the first half is folded before the second is begun
            IF Len(first) > 0 THEN DictBy(first, k, Drop(list, h)) ELSE <<>>

\* x in list: some element equals x (an int never equals a dict or a str)
InList(x, list) == \E i \in 1..Len(list) : list[i] = x

RECURSIVE Matched(_, _)
\* line 295: the values of vtb_dict whose key is in attentions, in its order
Matched(items, attentions) ==
    IF items = <<>> THEN <<>>
    ELSE IF Len(items) = 1
    THEN (IF InList(items[1][1], attentions) THEN <<items[1][2]>> ELSE <<>>)
    ELSE LET h == Len(items) \div 2 IN
         Matched(Take(items, h), attentions) \o Matched(Drop(items, h), attentions)

\* math.ceil(a / b) for a >= 0 and b > 0
CeilDiv(a, b) == (a + b - 1) \div b

\* a mutant of NumPerCol: the quotient is cut, not raised
NumPerColFloor(vtbs_num) ==
    IF vtbs_num # 0 THEN vtbs_num \div CeilDiv(vtbs_num, 100) ELSE 1

\* line 300
NumPerCol(vtbs_num) ==
    IF vtbs_num # 0 THEN CeilDiv(vtbs_num, CeilDiv(vtbs_num, 100)) ELSE 1

\* a mutant of PercentHundredths: the quotient is not taken times 100
PercentAsFraction(vtbs_num, follows_num) ==
    IF follows_num # 0
    THEN LET q == (vtbs_num * 100) \div follows_num
             r == (vtbs_num * 100) % follows_num
         IN IF 2 * r > follows_num \/ (2 * r = follows_num /\ q % 2 = 1)
            THEN q + 1 ELSE q
    ELSE 0

\* line 299, in hundredths of a percent as ":.2f" of line 307 rounds it (to
\* the nearest, a tie to the even one); no division when follows_num is 0
PercentHundredths(vtbs_num, follows_num) ==
    IF follows_num # 0
    THEN LET q == (vtbs_num * 10000) \div follows_num
             r == (vtbs_num * 10000) % follows_num
         IN IF 2 * r > follows_num \/ (2 * r = follows_num /\ q % 2 = 1)
            THEN q + 1 ELSE q
    ELSE 0

\* line 307: f"{percent:.2f}% ({vtbs_num}/{follows_num})"
PercentText(vtbs_num, follows_num) ==
    LET h == PercentHundredths(vtbs_num, follows_num) IN
    IntText(h \div 100) \o <<".">> \o ZeroPad(IntText(h % 100), 2)
        \o <<"%", " ", "(">> \o IntText(vtbs_num) \o <<"/">> \o IntText(follows_num)
        \o <<")">>

\* lines 290-310: raised tells whether int() of line 290 raised
render_result(user_info, vtb, attentions, medal_list) ==
    IF IntRaises(Get(user_info.items, K.attention))
    THEN [raised |-> TRUE, result |-> PyNone]
    ELSE
    LET follows_num == IntOf(Get(user_info.items, K.attention))
        vtb_dict == DictBy(<<>>, K.mid, vtb)
        medal_dict == DictBy(<<>>, K.target_name, medal_list)
        picked == Matched(vtb_dict, attentions)
        vtbs == [i \in 1..Len(picked) |-> format_vtb_info(picked[i], medal_dict)]
        vtbs_num == Len(vtbs)
    IN [raised |-> FALSE,
        result |-> PyDict(<<
            <<K.name, Get(user_info.items, K.name)>>,
            <<K.uid, Get(user_info.items, K.mid)>>,
            <<K.face, Get(user_info.items, K.face)>>,
            <<K.fans, Get(user_info.items, K.fans)>>,
            <<K.follows, PyInt(follows_num)>>,
            <<K.percent, PyStr(PercentText(vtbs_num, follows_num))>>,
            <<K.vtbs, PyList(vtbs)>>,
            <<K.num_per_col, PyInt(NumPerCol(vtbs_num))>> >>)]

(***************************************************************************)
(* SpecReport: calls of render_ddcheck_image                               *)
(***************************************************************************)
\* entries of the longest registry and of the longest follow-list given to it
MaxRegistry == 3

MaxAttentions == 2

\* a registry entry as update_vtb_list writes it, lines 129-133
VtbEntry(mid, uname) == PyDict(<< <<K.mid, PyInt(mid)>>, <<K.uname, PyStr(uname)>> >>)

\* a user of a followings page, whose mid and uname line 243 keeps
PageUser(mid, uname) ==
    PyDict(<< <<K.mid, PyInt(mid)>>, <<K.face, PyStr(<<"f">>)>>,
              <<K.uname, PyStr(uname)>> >>)

VtbEntries ==
    {VtbEntry(1, <<"a">>), VtbEntry(2, <<"b">>), VtbEntry(1, <<"c">>), VtbEntry(3, <<"d">>)}

SeqsUpTo(S, n) == UNION {[1..k -> S] : k \in 0..n}

\* what get_user_attentions returns (line 243), and a list of ids as the
\* parameter's annotation of line 288 has it
AttentionLists ==
    SeqsUpTo({FollowEntry(PageUser(1, <<"a">>)), FollowEntry(PageUser(2, <<"x">>)),
              FollowEntry(PageUser(9, <<"z">>))}, MaxAttentions)
      \cup SeqsUpTo({PyInt(1), PyInt(2), PyInt(9)}, MaxAttentions)

\* an element of get_medal_list's result
Medal(target, colour) ==
    PyDict(<< <<K.target_name, PyStr(target)>>,
              <<K.medal_info,
                PyDict(<< <<K.medal_name, PyStr(<<"m">>)>>,
                          <<K.level, PyInt(3)>>,
                          <<K.medal_color_border, PyInt(colour)>>,
                          <<K.medal_color_start, PyInt(0)>>,
                          <<K.medal_color_end, PyInt(16777215)>> >>)>> >>)

MedalLists == {<<>>, <<Medal(<<"a">>, 255)>>}

UserInfo(attention) ==
    PyDict(<< <<K.name, PyStr(<<"n">>)>>, <<K.mid, PyInt(7)>>, <<K.face, PyStr(<<"f">>)>>,
              <<K.fans, PyInt(4)>>, <<K.attention, attention>> >>)

Attentions == {PyInt(0), PyInt(3), PyStr(<<"2">>), PyStr(<<>>)}

ReportInit ==
    /\ now = TTL
    /\ ticks = 0
    /\ cache = InitialCache
    /\ TasksIdle
    /\ SignIdle
    /\ upstream = <<>>
    /\ FetchIdle
    /\ file = NoFile
    /\ UpdateIdle
    /\ StoreIdle
    /\ ReportIdle

\* lines 287-311, up to the await of the template
ReportCall ==
    /\ rpc = "idle"
    /\ \E a \in Attentions, vtb \in SeqsUpTo(VtbEntries, MaxRegistry),
          att \in AttentionLists, medals \in MedalLists :
         LET r == render_result(UserInfo(a), vtb, att, medals) IN
         /\ rargs' = [user_info |-> UserInfo(a), vtb_list |-> vtb,
                      attentions |-> att, medal_list |-> medals]
         /\ rpc' = IF r.raised THEN "raised" ELSE "rendering"
         /\ rresult' = r.result

\* lines 311-312: the template and the picture are made of `result`, and the
\* caller goes on
ReportAgain ==
    /\ rpc \in {"rendering", "raised"}
    /\ rpc' = "idle"
    /\ rargs' = NoArgs
    /\ rresult' = PyNone

ReportFrame ==
    UNCHANGED <<clockVars, cache, taskVars, signVars, fetchVars, file, updateVars, storeVars>>

ReportNext ==
    \/ ReportCall /\ ReportFrame
    \/ ReportAgain /\ ReportFrame

SpecReport == ReportInit /\ [][ReportNext]_vars

(***************************************************************************)
(* C8                                                                      *)
(***************************************************************************)
\* the ids of the entries of a follow-list as get_user_attentions returns it
C8_FollowIds(attentions) ==
    {Get(attentions[i].items, K.mid) : i \in {j \in 1..Len(attentions) : attentions[j].t = "dict"}}

\* the registry entries whose id is the id of an entry of the follow-list
C8_Expected(vtb, attentions) ==
    {vtb[i] : i \in {j \in 1..Len(vtb) : Get(vtb[j].items, K.mid) \in C8_FollowIds(attentions)}}

\* C8: given the follow-list get_user_attentions returns, the matched entries
\* are the registry entries whose mid is the mid of some entry of the
\* follow-list: every such id is among them, each of them has such an id and
\* the registry's name for it, and the count in the report is their number.
C8_MatchedByFollowList ==
    (/\ rpc = "rendering"
     /\ \A i \in 1..Len(rargs.attentions) : rargs.attentions[i].t = "dict") =>
        LET vtbs == Get(rresult.items, K.vtbs).elems
            expected == C8_Expected(rargs.vtb_list, rargs.attentions)
        IN /\ {Get(e.items, K.mid) : e \in expected}
                = {Get(vtbs[i].items, K.uid) : i \in 1..Len(vtbs)}
           /\ \A i \in 1..Len(vtbs) :
                \E e \in expected :
                    /\ Get(e.items, K.mid) = Get(vtbs[i].items, K.uid)
                    /\ Get(e.items, K.uname) = Get(vtbs[i].items, K.name)
           /\ Get(rresult.items, K.percent)
                = PyStr(PercentText(Cardinality({Get(e.items, K.mid) : e \in expected}),
                                    Get(rresult.items, K.follows).n))

(***************************************************************************)
(* C9                                                                      *)
(***************************************************************************)
RECURSIVE C9_Canonical(_, _)
\* the pairs key=encoded-value of items i.. of body, joined by "&"
C9_Canonical(body, i) ==
    IF i > Len(body) THEN <<>>
    ELSE body[i][1] \o <<"=">> \o quote_plus(StrOf(body[i][2]))
             \o (IF i < Len(body) THEN <<"&">> \o C9_Canonical(body, i + 1) ELSE <<>>)

\* the mixed secret: for each of the first 64 table values p, the character
\* at index p of image_key + sub_key
C9_MixedSecret(c) ==
    [k \in 1..64 |-> (c.img_key \o c.sub_key)[mixinKeyEncTab[k] + 1]]

\* C9: what sign returned has, before its last field, exactly the input fields
\* and the timestamp field, in ascending order of their keys, each input field
\* with its input value and the timestamp field with the time of the call;
\* its last field is w_rid, the digest of the canonical string of all the
\* fields before it, concatenated with the mixed secret.
C9_SignedFields ==
    spc = "returned" =>
        LET n == Len(sout)
            body == Take(sout, n - 1)
            fields == {sparams[i][1] : i \in 1..Len(sparams)} \cup {K.wts}
        IN /\ n >= 2
           /\ sout[n][1] = K.w_rid
           /\ {body[i][1] : i \in 1..(n - 1)} = fields
           /\ n - 1 = Cardinality(fields)
           /\ \A i \in 1..(n - 2) : TextLess(body[i][1], body[i + 1][1])
           /\ \A i \in 1..(n - 1) :
                body[i][2] = IF body[i][1] = K.wts THEN PyInt(sts)
                             ELSE Get(sparams, body[i][1])
           /\ sout[n][2] = PyStr(Md5Hex(C9_Canonical(body, 1) \o C9_MixedSecret(cache)))

\* a call has signed three fields that were given out of order, a "wts" of
\* the caller and a keyword that needs encoding among them
C9_Witness ==
    /\ spc = "returned"
    /\ Len(sparams) = 3
    /\ Has(sparams, K.wts)
    /\ Has(sparams, K.keyword)
    /\ TextLess(sparams[2][1], sparams[1][1])
    /\ sts > TTL

(***************************************************************************)
(* SpecColumns: render_ddcheck_image when many registry entries match      *)
(***************************************************************************)
\* the most entries that match
MaxMatched == 250

\* lines 287-311 for a registry of n entries with the ids 1..n, all of them
\* in the follow-list
ReportCallMany ==
    /\ rpc = "idle"
    /\ \E n \in 0..MaxMatched, a \in {PyInt(0), PyInt(300)} :
         LET vtb == [i \in 1..n |-> VtbEntry(i, <<"v">>)]
             ids == [i \in 1..n |-> PyInt(i)]
             r == render_result(UserInfo(a), vtb, ids, <<>>)
         IN /\ rargs' = [user_info |-> UserInfo(a), vtb_list |-> vtb,
                         attentions |-> ids, medal_list |-> <<>>]
            /\ rpc' = IF r.raised THEN "raised" ELSE "rendering"
            /\ rresult' = r.result

ColumnsNext ==
    \/ ReportCallMany /\ ReportFrame
    \/ ReportAgain /\ ReportFrame

SpecColumns == ReportInit /\ [][ColumnsNext]_vars

(***************************************************************************)
(* C11                                                                     *)
(***************************************************************************)
\* the least r with r * per >= n: ceil(n / per), stated without a division
C11_Least(n, per) == CHOOSE r \in 0..n : r * per >= n /\ \A q \in 0..(r - 1) : q * per < n

\* C11: num_per_col is 1 when nothing matched and ceil(n / ceil(n / 100)) for
\* n matched entries (84 for 250); it is in 1..100, and that many columns of
\* ceil(n / 100) hold all n.
C11_ColumnCount ==
    rpc = "rendering" =>
        LET n == Len(Get(rresult.items, K.vtbs).elems)
            cc == Get(rresult.items, K.num_per_col).n
        IN /\ n = 0 => cc = 1
           /\ n > 0 => cc = C11_Least(n, C11_Least(n, 100))
           /\ n = 250 => cc = 84
           /\ 1 <= cc /\ cc <= 100
           /\ cc * C11_Least(n, 100) >= n

\* 250 entries matched and the report has 84
C11_Witness ==
    /\ rpc = "rendering"
    /\ Len(Get(rresult.items, K.vtbs).elems) = 250
    /\ Get(rresult.items, K.num_per_col) = PyInt(84)

(***************************************************************************)
(* C12                                                                     *)
(***************************************************************************)
\* the text of line 307 for h hundredths of a percent
C12_Text(h, n, m) ==
    IntText(h \div 100) \o <<".">> \o ZeroPad(IntText(h % 100), 2)
        \o <<"%", " ", "(">> \o IntText(n) \o <<"/">> \o IntText(m) \o <<")">>

\* C12: a call with a follow count of 0 does not raise and its percentage is
\* 0 whatever matched; with another follow count the percentage is
\* matched / follows * 100 (as the report prints it: to the nearest hundredth).
C12_PercentOrZero ==
    /\ (rpc = "raised") => IntRaises(Get(rargs.user_info.items, K.attention))
    /\ (rpc = "rendering") =>
         LET n == Len(Get(rresult.items, K.vtbs).elems)
             m == Get(rresult.items, K.follows).n
             text == Get(rresult.items, K.percent).s
         IN IF m = 0
            THEN text = C12_Text(0, n, 0)
            ELSE \E h \in {(n * 10000) \div m, (n * 10000) \div m + 1} :
                    /\ 2 * (h * m - n * 10000) <= m
                    /\ 2 * (n * 10000 - h * m) <= m
                    /\ text = C12_Text(h, n, m)

\* entries matched for a user whose follow count is 0, and the report says 0
C12_Witness ==
    /\ rpc = "rendering"
    /\ Get(rresult.items, K.follows) = PyInt(0)
    /\ Len(Get(rresult.items, K.vtbs).elems) > 0
    /\ Get(rresult.items, K.percent) = PyStr(<<"0", ".", "0", "0", "%", " ", "(", "1", "/", "0", ")">>)

(***************************************************************************)
(* C13                                                                     *)
(***************************************************************************)
\* C13: after a refresh that a mirror won, the persisted registry is the
\* entries of that mirror's result as lines 127-133 write them, in the
\* result's order: nothing of a mirror that failed before it, nothing of the
\* registry persisted before.
C13_WinnerOnly ==
    (upc = "done" /\ mirrorStatus[Len(mirrorStatus)] = "break") =>
        Persisted(file) = PyList(ProcessInfos(<<>>, lastAnswer.result.elems).vtb_list)

(***************************************************************************)
(* SpecKeysSign: get_wbi_sign_params called while tasks refresh the keys   *)
(***************************************************************************)
\* lines 77-110 for a dict of one parameter
KeysSignCall ==
    /\ spc = "idle"
    /\ sparams' = << <<K.vmid, PyInt(FetchUid)>> >>
    /\ sts' = now
    /\ IF SignRaises(cache)
       THEN spc' = "raised" /\ sout' = <<>>
       ELSE spc' = "returned"
            /\ sout' = get_wbi_sign_params(<< <<K.vmid, PyInt(FetchUid)>> >>, cache, now)
    /\ UNCHANGED <<clockVars, cache, taskVars, fetchVars, file, updateVars, storeVars, reportVars>>

\* the signing call has no await: what it returned is taken by its caller
\* before any task runs on
KeysSignNext ==
    \/ spc = "idle" /\ KeysNext
    \/ KeysSignCall
    \/ SignAgain

SpecKeysSign == KeysInit /\ [][KeysSignNext]_vars

(***************************************************************************)
(* C14                                                                     *)
(***************************************************************************)
\* the pairs one refresh writes, and the initial pair
C14_WholePairs ==
    {Fetched(<<>>, <<>>, 0)}
        \cup {Fetched(Stem(r.img_url), Stem(r.sub_url), 0) :
                r \in {x \in NavResponses : x.kind = "ok"}}

\* C14: whatever the interleaving of refreshes and signing calls, the pair a
\* signing call reads is the pair of one refresh or the initial pair: the
\* cache never holds, and no signature is made of, the img_key of one refresh
\* beside the sub_key of another.
C14_NoTornPair ==
    /\ Fetched(cache.img_key, cache.sub_key, 0) \in C14_WholePairs
    /\ spc = "returned" =>
         \E c \in C14_WholePairs : ~SignRaises(c) /\ sout = get_wbi_sign_params(sparams, c, sts)
    /\ spc = "raised" => \E c \in C14_WholePairs : SignRaises(c)

\* a signature made of the refreshed pair while another refresh is awaited
C14_Witness ==
    /\ spc = "returned"
    /\ sout = get_wbi_sign_params(sparams, Fetched(KeyA, KeyB, 0), sts)
    /\ \E p \in Tasks : kpc[p] = "awaiting"

(***************************************************************************)
(* C15                                                                     *)
(***************************************************************************)
\* C15: the secret a signing call mixes has 64 characters, and the first 64
\* entries of the table name every index 0..63 exactly once, so that each of
\* the first 64 characters of img_key + sub_key is at exactly one place of it.
C15_SecretIsPermutation ==
    spc = "returned" =>
        /\ Len(get_mixin_key(cache.img_key \o cache.sub_key)) = 64
        /\ \A p \in 0..63 : Cardinality({k \in 1..Len(TabHead) : TabHead[k] = p}) = 1

(***************************************************************************)
(* C16, C19                                                                *)
(***************************************************************************)
\* C16: a call none of whose steps failed has ended after at most
\* T / 50 + 1 requests and has returned the T entries of the follow-list,
\* each as its mid and uname, in the order of the follow-list, none left out
\* and none twice.
C16_AllEntriesInOrder ==
    /\ Len(pageLog) <= Len(upstream) \div page_size + 1
    /\ (fpc = "done" /\ ffail = "none") =>
         /\ Len(fresult) = Len(upstream)
         /\ \A i \in 1..Len(upstream) :
              fresult[i] = PyDict(<< <<K.mid, Get(upstream[i].items, K.mid)>>,
                                     <<K.uname, Get(upstream[i].items, K.uname)>> >>)

\* a follow-list of 51 entries has been fetched in two pages
C16_Witness ==
    /\ fpc = "done"
    /\ ffail = "none"
    /\ Len(upstream) = page_size + 1
    /\ pageLog = <<1, 2>>
    /\ Len(fresult) = page_size + 1
    /\ fresult[page_size + 1] # fresult[page_size]

\* C19: for a follow-list of 50 * K entries, a call none of whose steps failed
\* has sent exactly the K + 1 requests of the pages 1..K+1, the last of them
\* answered by an empty list, and has returned all 50 * K entries.
C19_FullPagesThenEmpty ==
    (Len(upstream) % page_size = 0 /\ fpc = "done" /\ ffail = "none") =>
        LET k == Len(upstream) \div page_size IN
        /\ pageLog = [i \in 1..(k + 1) |-> i]
        /\ pageResponses = k + 1
        /\ PageOf(upstream, k + 1, page_size) = <<>>
        /\ Len(fresult) = page_size * k

\* a follow-list of 100 entries has been fetched with three requests
C19_Witness ==
    /\ fpc = "done"
    /\ ffail = "none"
    /\ Len(upstream) = 2 * page_size
    /\ pageLog = <<1, 2, 3>>
    /\ pageResponses = 3
    /\ Len(fresult) = 2 * page_size

(***************************************************************************)
(* SpecLookup: get_vtb_list, lines 168-172, beside the refresh of line 141  *)
(***************************************************************************)
\* lines 169-172: the registry is loaded; an empty one makes the call begin
\* update_vtb_list (lines 112-123) and await its first mirror, another one
\* is loaded again and returned.  (One refresh runs at a time here: a call
\* that would begin a second one beside the scheduled one is left out.)
GetCall ==
    /\ gpc = "idle"
    /\ upc = "idle" \/ Truthy(load_vtb_list(file).result)
    /\ LET r == load_vtb_list(file) IN
         IF r.raised
         THEN /\ gpc' = "raised"
              /\ UNCHANGED <<gret, file, fileIs, updateVars>>
         ELSE IF Truthy(r.result)
         THEN /\ gpc' = "returned"
              /\ gret' = load_vtb_list(r.file).result
              /\ UNCHANGED <<file, fileIs, updateVars>>
         ELSE /\ gpc' = "updating"
              /\ file' = r.file
              /\ fileIs' = IF r.file.exists THEN fileIs ELSE "absent"
              /\ vtb_list' = <<>>
              /\ fileAtStart' = r.file
              /\ upc' = "awaiting"
              /\ umirror' = 1
              /\ mirrorLog' = Append(mirrorLog, urls[1])
              /\ UNCHANGED <<gret, mirrorStatus, lastAnswer>>
    /\ UNCHANGED <<dumped, lpc, lret, lsaw>>

\* lines 171-172: update_vtb_list has returned; the registry is loaded again
GetReturn ==
    /\ gpc = "updating"
    /\ upc = "done"
    /\ LET r == load_vtb_list(file) IN
         /\ gpc' = IF r.raised THEN "raised" ELSE "returned"
         /\ gret' = r.result
         /\ file' = r.file
         /\ fileIs' = IF r.file.exists THEN fileIs ELSE "absent"
    /\ UNCHANGED <<dumped, lpc, lret, lsaw, updateVars>>

LookupNext ==
    \/ GetCall /\ UNCHANGED <<clockVars, cache, taskVars, signVars, fetchVars, reportVars>>
    \/ GetReturn /\ UNCHANGED <<clockVars, cache, taskVars, signVars, fetchVars, reportVars>>
    \/ UpdateCall /\ RegistryFrame
    \/ MirrorRespond /\ RegistryFrame

SpecLookup == RegistryInit /\ [][LookupNext]_vars

(***************************************************************************)
(* C17                                                                     *)
(***************************************************************************)
\* C17: get_vtb_list never awaits a request to a mirror, whether the
\* persisted registry is missing, empty or not; what it returns is the
\* registry persisted at that moment.
C17_LookupNeverWaits ==
    /\ gpc # "updating"
    /\ gpc = "returned" => gret = Persisted(file)

(***************************************************************************)
(* C18                                                                     *)
(***************************************************************************)
\* C18: whatever the interleaving of the calls of get_wbi_keys, no step makes
\* last_fetch smaller: the keys and the time of a refresh that began later
\* are not overwritten by one that began earlier.
C18_LastFetchNeverDecreases == [][cache'.last_fetch >= cache.last_fetch]_vars

(***************************************************************************)
(* C20                                                                     *)
(***************************************************************************)
\* the place of the last registry entry with the id mid
C20_LastWith(vtb, mid) ==
    CHOOSE i \in 1..Len(vtb) :
        /\ Get(vtb[i].items, K.mid) = mid
        /\ \A j \in (i + 1)..Len(vtb) : Get(vtb[j].items, K.mid) # mid

\* C20: the matched entries hold an id at most once, also when the registry
\* holds it several times; the name of a matched entry is the name of the last
\* registry entry with its id; there are no more matched entries than
\* distinct ids in the registry.
C20_OneEntryPerId ==
    rpc = "rendering" =>
        LET vtbs == Get(rresult.items, K.vtbs).elems
            vtb == rargs.vtb_list
        IN /\ \A i, j \in 1..Len(vtbs) :
                Get(vtbs[i].items, K.uid) = Get(vtbs[j].items, K.uid) => i = j
           /\ \A i \in 1..Len(vtbs) :
                /\ \E j \in 1..Len(vtb) :
                     Get(vtb[j].items, K.mid) = Get(vtbs[i].items, K.uid)
                /\ Get(vtbs[i].items, K.name)
                     = Get(vtb[C20_LastWith(vtb, Get(vtbs[i].items, K.uid))].items, K.uname)
           /\ Len(vtbs) <= Cardinality({Get(vtb[j].items, K.mid) : j \in 1..Len(vtb)})

\* the registry holds the id 1 twice, with the names a and then c; the id is
\* followed, and the one matched entry has the name c
C20_Witness ==
    /\ rpc = "rendering"
    /\ rargs.vtb_list = <<VtbEntry(1, <<"a">>), VtbEntry(2, <<"b">>), VtbEntry(1, <<"c">>)>>
    /\ rargs.attentions = <<PyInt(1)>>
    /\ Len(Get(rresult.items, K.vtbs).elems) = 1
    /\ Get(Get(rresult.items, K.vtbs).elems[1].items, K.name) = PyStr(<<"c">>)

=============================================================================
